---- MODULE Spec2Model ----
(***************************************************************************)
(* Ledger of pengine: ClientRepository::process applied to a stream of     *)
(* Transaction records, with the per-account transitions of ClientAccount. *)
(* Funds are integers; Option<Funds> is the empty set (None) or a          *)
(* singleton (Some(a)).                                                    *)
(***************************************************************************)
EXTENDS Integers, FiniteSets, Sequences, TLC

\* ---- bounds ----
MaxClient == 2
MaxTx == 1
MaxAmount == 1
MaxRecords == 5

ClientIds == 1..MaxClient
TransactionIds == 1..MaxTx

\* ---- Option<Funds> ----
None == {}
Some(a) == {a}
Unwrap(o) == CHOOSE a \in o : TRUE

\* amounts a Deposit/Withdrawal record may carry: absent, or 1..MaxAmount
Amounts == {None} \cup {Some(a) : a \in 1..MaxAmount}

\* clients, transaction_log: the two maps of ClientRepository
\* branch, result: the arm of process the latest call went through, and what
\*           it returned
\* nrecords: how many records of the stream the loop of main has consumed
\* rejected: tx ids whose current log entry is a Withdrawal refused for
\*           insufficient funds
\* resolved: <<client, tx>> on which resolve ran, with no Dispute record
\*           of that client on that tx since
\* chargedback: <<client, tx>> on which chargeback ran
\* interfered: some call of process so far changed the account or a log entry
\*           of a client other than its record's, apart from overwriting the
\*           entry under the record's own tx id
\* pre_dispute: when the latest record was a Dispute that dispute() applied to
\*           a Posted entry, its client and tx and the account before it; kept,
\*           with resolved set, when the record after it is the Resolve of
\*           that client and tx and resolve() applied
VARIABLES clients, transaction_log, branch, result, nrecords,
          rejected, resolved, chargedback, interfered, pre_dispute

vars == <<clients, transaction_log, branch, result, nrecords,
          rejected, resolved, chargedback, interfered, pre_dispute>>

\* ---- ClientAccount ----
new(client) ==
    [client |-> client, available |-> 0, held |-> 0, total |-> 0, locked |-> FALSE]

\* deposit that a locked account turns away
deposit_unless_locked(self, tx, amount) ==
    IF amount = None \/ self.locked THEN self
    ELSE [self EXCEPT !.available = @ + Unwrap(amount),
                      !.total = @ + Unwrap(amount)]

deposit(self, tx, amount) ==
    IF amount = None THEN self
    ELSE [self EXCEPT !.available = @ + Unwrap(amount),
                      !.total = @ + Unwrap(amount)]

\* withdraw that refuses to empty the account
withdraw_keeps_a_rest(self, tx, amount) ==
    IF amount = None THEN self
    ELSE IF self.available <= Unwrap(amount) THEN self
    ELSE [self EXCEPT !.available = @ - Unwrap(amount),
                      !.total = @ - Unwrap(amount)]

withdraw(self, tx, amount) ==
    IF amount = None THEN self
    ELSE IF self.available < Unwrap(amount) THEN self
    ELSE [self EXCEPT !.available = @ - Unwrap(amount),
                      !.total = @ - Unwrap(amount)]

\* dispute that takes an absent amount for nothing to move instead of bailing
dispute_no_bail(self, tx, amount) ==
    IF amount = None THEN [ok |-> TRUE, acct |-> self]
    ELSE [ok |-> TRUE,
          acct |-> [self EXCEPT !.available = @ - Unwrap(amount),
                                !.held = @ + Unwrap(amount)]]

\* dispute that holds the amount without taking it off available
dispute_keeps_available(self, tx, amount) ==
    IF amount = None THEN [ok |-> FALSE, acct |-> self]
    ELSE [ok |-> TRUE,
          acct |-> [self EXCEPT !.held = @ + Unwrap(amount)]]

\* dispute, resolve and chargeback return Result<()>: ok is FALSE on bail!,
\* which happens before any field is written
dispute(self, tx, amount) ==
    IF amount = None THEN [ok |-> FALSE, acct |-> self]
    ELSE [ok |-> TRUE,
          acct |-> [self EXCEPT !.available = @ - Unwrap(amount),
                                !.held = @ + Unwrap(amount)]]

\* resolve that also lifts the lock
resolve_unlocks(self, tx, amount) ==
    IF amount = None THEN [ok |-> FALSE, acct |-> self]
    ELSE [ok |-> TRUE,
          acct |-> [self EXCEPT !.held = @ - Unwrap(amount),
                                !.available = @ + Unwrap(amount),
                                !.locked = FALSE]]

\* resolve that gives the amount back to total as well
resolve_adds_total(self, tx, amount) ==
    IF amount = None THEN [ok |-> FALSE, acct |-> self]
    ELSE [ok |-> TRUE,
          acct |-> [self EXCEPT !.held = @ - Unwrap(amount),
                                !.available = @ + Unwrap(amount),
                                !.total = @ + Unwrap(amount)]]

\* resolve that gives the amount back to available and leaves it in held
resolve_keeps_held(self, tx, amount) ==
    IF amount = None THEN [ok |-> FALSE, acct |-> self]
    ELSE [ok |-> TRUE,
          acct |-> [self EXCEPT !.available = @ + Unwrap(amount)]]

resolve(self, tx, amount) ==
    IF amount = None THEN [ok |-> FALSE, acct |-> self]
    ELSE [ok |-> TRUE,
          acct |-> [self EXCEPT !.held = @ - Unwrap(amount),
                                !.available = @ + Unwrap(amount)]]

\* chargeback that forgets to take the amount out of total
chargeback_keeps_total(self, tx, amount) ==
    IF amount = None THEN [ok |-> FALSE, acct |-> self]
    ELSE [ok |-> TRUE,
          acct |-> [self EXCEPT !.held = @ - Unwrap(amount),
                                !.locked = TRUE]]

\* chargeback that takes the amount off available instead of held
chargeback_from_available(self, tx, amount) ==
    IF amount = None THEN [ok |-> FALSE, acct |-> self]
    ELSE [ok |-> TRUE,
          acct |-> [self EXCEPT !.available = @ - Unwrap(amount),
                                !.total = @ - Unwrap(amount),
                                !.locked = TRUE]]

chargeback(self, tx, amount) ==
    IF amount = None THEN [ok |-> FALSE, acct |-> self]
    ELSE [ok |-> TRUE,
          acct |-> [self EXCEPT !.held = @ - Unwrap(amount),
                                !.total = @ - Unwrap(amount),
                                !.locked = TRUE]]

\* ---- BTreeMap helpers ----
Insert(map, k, v) == [x \in DOMAIN map \cup {k} |-> IF x = k THEN v ELSE map[x]]

\* ---- ClientRepository ----
log_transaction(log, typ, client, tx, amount) ==
    Insert(log, tx, [typ |-> typ, client |-> client, tx |-> tx, amount |-> amount])

\* status of a logged entry: the typ field doubles as the status tag
Posted(entry) == entry.typ \in {"Deposit", "Withdrawal"}
Disputed(entry) == entry.typ = "Dispute"

\* what a step changed that belongs to a client other than c: an account, or
\* a logged entry under a tx other than skip
OtherAccountChanged(c) ==
    \E k \in DOMAIN clients \ {c} :
        k \notin DOMAIN clients' \/ clients'[k] # clients[k]

OtherEntryChanged(c, skip) ==
    \E u \in DOMAIN transaction_log \ skip :
        /\ transaction_log[u].client # c
        /\ u \notin DOMAIN transaction_log' \/ transaction_log'[u] # transaction_log[u]

\* interfered after a call of process for a record of client c
WriteOutside(c, skip) ==
    IF clients' = clients /\ transaction_log' = transaction_log THEN interfered
    ELSE interfered \/ OtherAccountChanged(c) \/ OtherEntryChanged(c, skip)

Init ==
    /\ clients = <<>>
    /\ transaction_log = <<>>
    /\ branch = "new"
    /\ result = "Ok"
    /\ nrecords = 0
    /\ rejected = {}
    /\ resolved = {}
    /\ chargedback = {}
    /\ interfered = FALSE
    /\ pre_dispute = None

\* the loop of main hands process the next record of the stream
NextRecord ==
    /\ nrecords < MaxRecords
    /\ nrecords' = nrecords + 1

\* process that opens the account only when the first deposit carries an amount
ProcessDeposit_first_successful(client, tx, amount) ==
    /\ NextRecord
    /\ IF client \in DOMAIN clients
         THEN /\ branch' = "deposit"
              /\ clients' = [clients EXCEPT ![client] = deposit(@, tx, amount)]
              /\ transaction_log' =
                    log_transaction(transaction_log, "Deposit", client, tx, amount)
              /\ rejected' = rejected \ {tx}
         ELSE /\ branch' = "open"
              /\ clients' = IF amount = None THEN clients
                            ELSE Insert(clients, client, deposit(new(client), tx, amount))
              /\ UNCHANGED <<transaction_log, rejected>>
    /\ result' = "Ok"
    /\ UNCHANGED <<resolved, chargedback>>
    /\ interfered' = WriteOutside(client, {tx})
    /\ pre_dispute' = None

ProcessDeposit(client, tx, amount) ==
    /\ NextRecord
    /\ IF client \in DOMAIN clients
         THEN /\ branch' = "deposit"
              /\ clients' = [clients EXCEPT ![client] = deposit(@, tx, amount)]
              /\ transaction_log' =
                    log_transaction(transaction_log, "Deposit", client, tx, amount)
              /\ rejected' = rejected \ {tx}
         ELSE /\ branch' = "open"
              /\ clients' = Insert(clients, client, deposit(new(client), tx, amount))
              /\ UNCHANGED <<transaction_log, rejected>>
    /\ result' = "Ok"
    /\ UNCHANGED <<resolved, chargedback>>
    /\ interfered' = WriteOutside(client, {tx})
    /\ pre_dispute' = None

ProcessWithdrawal(client, tx, amount) ==
    /\ NextRecord
    /\ IF client \in DOMAIN clients
         THEN /\ branch' = "withdraw"
              /\ clients' = [clients EXCEPT ![client] = withdraw(@, tx, amount)]
              /\ transaction_log' =
                    log_transaction(transaction_log, "Withdrawal", client, tx, amount)
              /\ rejected' = IF amount # None /\ clients[client].available < Unwrap(amount)
                               THEN rejected \cup {tx}
                               ELSE rejected \ {tx}
         ELSE /\ branch' = "skip_no_account"
              /\ UNCHANGED <<clients, transaction_log, rejected>>
    /\ result' = "Ok"
    /\ UNCHANGED <<resolved, chargedback>>
    /\ interfered' = WriteOutside(client, {tx})
    /\ pre_dispute' = None

\* process that disputes a logged entry without comparing its client
ProcessDispute_any_client(client, tx) ==
    /\ NextRecord
    /\ IF client \notin DOMAIN clients
         THEN /\ branch' = "skip_no_account"
              /\ result' = "Ok"
              /\ UNCHANGED <<clients, transaction_log>>
       ELSE IF tx \notin DOMAIN transaction_log
         THEN /\ branch' = "dispute_unknown_tx"
              /\ result' = "Ok"
              /\ UNCHANGED <<clients, transaction_log>>
       ELSE LET r == dispute(clients[client], tx, transaction_log[tx].amount) IN
              /\ branch' = IF r.ok
                             THEN IF transaction_log[tx].client = client
                                    THEN "dispute" ELSE "dispute_wrong_client"
                             ELSE "dispute_err"
              /\ clients' = [clients EXCEPT ![client] = r.acct]
              /\ transaction_log' =
                    IF r.ok THEN [transaction_log EXCEPT ![tx].typ = "Dispute"]
                    ELSE transaction_log
              /\ result' = IF r.ok THEN "Ok" ELSE "Err"
    /\ resolved' = resolved \ {<<client, tx>>}
    /\ UNCHANGED <<rejected, chargedback>>
    /\ interfered' = WriteOutside(client, {})
    /\ pre_dispute' = IF branch' = "dispute" /\ Posted(transaction_log[tx])
                       THEN Some([client |-> client, tx |-> tx, acct |-> clients[client],
                                  resolved |-> FALSE])
                       ELSE None

\* process that marks the entry Disputed before it asks the account to
\* dispute it
ProcessDispute_marks_first(client, tx) ==
    /\ NextRecord
    /\ IF client \notin DOMAIN clients
         THEN /\ branch' = "skip_no_account"
              /\ result' = "Ok"
              /\ UNCHANGED <<clients, transaction_log>>
       ELSE IF tx \notin DOMAIN transaction_log
         THEN /\ branch' = "dispute_unknown_tx"
              /\ result' = "Ok"
              /\ UNCHANGED <<clients, transaction_log>>
       ELSE IF transaction_log[tx].client # client
         THEN /\ branch' = "dispute_wrong_client"
              /\ result' = "Ok"
              /\ UNCHANGED <<clients, transaction_log>>
       ELSE LET r == dispute(clients[client], tx, transaction_log[tx].amount) IN
              /\ branch' = IF r.ok THEN "dispute" ELSE "dispute_err"
              /\ clients' = [clients EXCEPT ![client] = r.acct]
              /\ transaction_log' = [transaction_log EXCEPT ![tx].typ = "Dispute"]
              /\ result' = IF r.ok THEN "Ok" ELSE "Err"
    /\ resolved' = resolved \ {<<client, tx>>}
    /\ UNCHANGED <<rejected, chargedback>>
    /\ interfered' = WriteOutside(client, {})
    /\ pre_dispute' = IF branch' = "dispute" /\ Posted(transaction_log[tx])
                       THEN Some([client |-> client, tx |-> tx, acct |-> clients[client],
                                  resolved |-> FALSE])
                       ELSE None

ProcessDispute(client, tx) ==
    /\ NextRecord
    /\ IF client \notin DOMAIN clients
         THEN /\ branch' = "skip_no_account"
              /\ result' = "Ok"
              /\ UNCHANGED <<clients, transaction_log>>
       ELSE IF tx \notin DOMAIN transaction_log
         THEN /\ branch' = "dispute_unknown_tx"
              /\ result' = "Ok"
              /\ UNCHANGED <<clients, transaction_log>>
       ELSE IF transaction_log[tx].client # client
         THEN /\ branch' = "dispute_wrong_client"
              /\ result' = "Ok"
              /\ UNCHANGED <<clients, transaction_log>>
       ELSE LET r == dispute(clients[client], tx, transaction_log[tx].amount) IN
              /\ branch' = IF r.ok THEN "dispute" ELSE "dispute_err"
              /\ clients' = [clients EXCEPT ![client] = r.acct]
              /\ transaction_log' =
                    IF r.ok THEN [transaction_log EXCEPT ![tx].typ = "Dispute"]
                    ELSE transaction_log
              /\ result' = IF r.ok THEN "Ok" ELSE "Err"
    /\ resolved' = resolved \ {<<client, tx>>}
    /\ UNCHANGED <<rejected, chargedback>>
    /\ interfered' = WriteOutside(client, {})
    /\ pre_dispute' = IF branch' = "dispute" /\ Posted(transaction_log[tx])
                       THEN Some([client |-> client, tx |-> tx, acct |-> clients[client],
                                  resolved |-> FALSE])
                       ELSE None

\* process that resolves a logged entry of the client whatever its status
ProcessResolve_any_status(client, tx) ==
    /\ NextRecord
    /\ IF client \notin DOMAIN clients
         THEN /\ branch' = "skip_no_account"
              /\ result' = "Ok"
              /\ UNCHANGED <<clients, resolved>>
       ELSE IF tx \notin DOMAIN transaction_log
         THEN /\ branch' = "resolve_unknown_tx"
              /\ result' = "Ok"
              /\ UNCHANGED <<clients, resolved>>
       ELSE IF transaction_log[tx].client # client
         THEN /\ branch' = "resolve_skip"
              /\ result' = "Ok"
              /\ UNCHANGED <<clients, resolved>>
       ELSE LET r == resolve(clients[client], tx, transaction_log[tx].amount) IN
              /\ branch' = IF r.ok THEN "resolve" ELSE "resolve_err"
              /\ clients' = [clients EXCEPT ![client] = r.acct]
              /\ result' = IF r.ok THEN "Ok" ELSE "Err"
              /\ resolved' = IF r.ok THEN resolved \cup {<<client, tx>>} ELSE resolved
    /\ UNCHANGED <<transaction_log, rejected, chargedback>>
    /\ interfered' = WriteOutside(client, {})
    /\ pre_dispute' =
          {[p EXCEPT !.resolved = TRUE] :
              p \in {q \in pre_dispute : /\ branch' = "resolve"
                                         /\ q.client = client /\ q.tx = tx
                                         /\ ~q.resolved}}

ProcessResolve(client, tx) ==
    /\ NextRecord
    /\ IF client \notin DOMAIN clients
         THEN /\ branch' = "skip_no_account"
              /\ result' = "Ok"
              /\ UNCHANGED <<clients, resolved>>
       ELSE IF tx \notin DOMAIN transaction_log
         THEN /\ branch' = "resolve_unknown_tx"
              /\ result' = "Ok"
              /\ UNCHANGED <<clients, resolved>>
       ELSE IF ~(transaction_log[tx].typ = "Dispute" /\ transaction_log[tx].client = client)
         THEN /\ branch' = "resolve_skip"
              /\ result' = "Ok"
              /\ UNCHANGED <<clients, resolved>>
       ELSE LET r == resolve(clients[client], tx, transaction_log[tx].amount) IN
              /\ branch' = IF r.ok THEN "resolve" ELSE "resolve_err"
              /\ clients' = [clients EXCEPT ![client] = r.acct]
              /\ result' = IF r.ok THEN "Ok" ELSE "Err"
              /\ resolved' = IF r.ok THEN resolved \cup {<<client, tx>>} ELSE resolved
    /\ UNCHANGED <<transaction_log, rejected, chargedback>>
    /\ interfered' = WriteOutside(client, {})
    /\ pre_dispute' =
          {[p EXCEPT !.resolved = TRUE] :
              p \in {q \in pre_dispute : /\ branch' = "resolve"
                                         /\ q.client = client /\ q.tx = tx
                                         /\ ~q.resolved}}

\* process that charges back on the account of the entry's client instead of
\* comparing it with the record's client
ProcessChargeback_entry_owner(client, tx) ==
    /\ NextRecord
    /\ IF client \notin DOMAIN clients
         THEN /\ branch' = "skip_no_account"
              /\ result' = "Ok"
              /\ UNCHANGED <<clients, chargedback>>
       ELSE IF tx \notin DOMAIN transaction_log
         THEN /\ branch' = "chargeback_unknown_tx"
              /\ result' = "Ok"
              /\ UNCHANGED <<clients, chargedback>>
       ELSE IF ~(transaction_log[tx].typ = "Dispute")
         THEN /\ branch' = "chargeback_skip"
              /\ result' = "Ok"
              /\ UNCHANGED <<clients, chargedback>>
       ELSE LET owner == transaction_log[tx].client
                r == chargeback(clients[owner], tx, transaction_log[tx].amount) IN
              /\ branch' = IF r.ok THEN "chargeback" ELSE "chargeback_err"
              /\ clients' = [clients EXCEPT ![owner] = r.acct]
              /\ result' = IF r.ok THEN "Ok" ELSE "Err"
              /\ chargedback' = IF r.ok THEN chargedback \cup {<<owner, tx>>} ELSE chargedback
    /\ UNCHANGED <<transaction_log, rejected, resolved>>
    /\ interfered' = WriteOutside(client, {})
    /\ pre_dispute' = None

ProcessChargeback(client, tx) ==
    /\ NextRecord
    /\ IF client \notin DOMAIN clients
         THEN /\ branch' = "skip_no_account"
              /\ result' = "Ok"
              /\ UNCHANGED <<clients, chargedback>>
       ELSE IF tx \notin DOMAIN transaction_log
         THEN /\ branch' = "chargeback_unknown_tx"
              /\ result' = "Ok"
              /\ UNCHANGED <<clients, chargedback>>
       ELSE IF ~(transaction_log[tx].typ = "Dispute" /\ transaction_log[tx].client = client)
         THEN /\ branch' = "chargeback_skip"
              /\ result' = "Ok"
              /\ UNCHANGED <<clients, chargedback>>
       ELSE LET r == chargeback(clients[client], tx, transaction_log[tx].amount) IN
              /\ branch' = IF r.ok THEN "chargeback" ELSE "chargeback_err"
              /\ clients' = [clients EXCEPT ![client] = r.acct]
              /\ result' = IF r.ok THEN "Ok" ELSE "Err"
              /\ chargedback' = IF r.ok THEN chargedback \cup {<<client, tx>>} ELSE chargedback
    /\ UNCHANGED <<transaction_log, rejected, resolved>>
    /\ interfered' = WriteOutside(client, {})
    /\ pre_dispute' = None

\* process reads the amount of a record only in the Deposit and Withdrawal
\* arms, so Dispute, Resolve and Chargeback records are drawn without one
Next ==
    \/ \E c \in ClientIds, t \in TransactionIds, a \in Amounts : ProcessDeposit(c, t, a)
    \/ \E c \in ClientIds, t \in TransactionIds, a \in Amounts : ProcessWithdrawal(c, t, a)
    \/ \E c \in ClientIds, t \in TransactionIds : ProcessDispute(c, t)
    \/ \E c \in ClientIds, t \in TransactionIds : ProcessResolve(c, t)
    \/ \E c \in ClientIds, t \in TransactionIds : ProcessChargeback(c, t)

Spec == Init /\ [][Next]_vars

\* ---- properties ----
Balances(acct) == <<acct.available, acct.held, acct.total>>

\* the arms of process each record kind can go through; in the properties a
\* test of branch' against them comes before the quantifier over records and
\* only spares evaluating actions that cannot be the step
DepositBranches == {"deposit", "open"}
WithdrawalBranches == {"withdraw", "skip_no_account"}
DisputeBranches ==
    {"dispute", "dispute_err", "dispute_wrong_client", "dispute_unknown_tx",
     "skip_no_account"}
ResolveBranches ==
    {"resolve", "resolve_err", "resolve_skip", "resolve_unknown_tx", "skip_no_account"}
ChargebackBranches ==
    {"chargeback", "chargeback_err", "chargeback_skip", "chargeback_unknown_tx",
     "skip_no_account"}

\* the guards of process, read in the state before the call
DisputeApplies(client, tx) ==
    /\ client \in DOMAIN clients
    /\ tx \in DOMAIN transaction_log
    /\ transaction_log[tx].client = client
    /\ transaction_log[tx].amount # None

SettleApplies(client, tx) ==
    /\ client \in DOMAIN clients
    /\ tx \in DOMAIN transaction_log
    /\ transaction_log[tx].typ = "Dispute"
    /\ transaction_log[tx].client = client
    /\ transaction_log[tx].amount # None

\* C1: in every reachable state every account has total = available + held.
C1_TotalIsAvailablePlusHeld ==
    \A c \in DOMAIN clients :
        clients[c].total = clients[c].available + clients[c].held

\* an account that went through deposit, dispute and chargeback and still
\* holds funds
C1_Witness ==
    \E c \in DOMAIN clients :
        clients[c].locked /\ clients[c].held # 0 /\ clients[c].total # 0

\* C2: after a Deposit record (account existing or created by it) or a
\* Withdrawal record for an existing account, the log holds an entry under the
\* record's tx with the record's client and amount, in status Posted.
C2_DepositWithdrawalLogged ==
    [][ branch' \in DepositBranches \cup WithdrawalBranches =>
        \A c \in ClientIds, t \in TransactionIds, a \in Amounts :
          (\/ ProcessDeposit(c, t, a)
           \/ ProcessWithdrawal(c, t, a) /\ c \in DOMAIN clients)
          => /\ t \in DOMAIN transaction_log'
             /\ transaction_log'[t].client = c
             /\ transaction_log'[t].amount = a
             /\ Posted(transaction_log'[t]) ]_vars

\* C3: a Dispute record changes state only when the referenced entry exists,
\* belongs to the record's client and is Posted; a Dispute on an entry that is
\* already Disputed returns Ok and leaves accounts and log unchanged.
C3_DisputeOnlyWhenPosted ==
    [][ branch' \in DisputeBranches =>
        \A c \in ClientIds, t \in TransactionIds :
          ProcessDispute(c, t)
          => /\ (clients' # clients \/ transaction_log' # transaction_log)
                  => /\ t \in DOMAIN transaction_log
                     /\ transaction_log[t].client = c
                     /\ Posted(transaction_log[t])
             /\ (t \in DOMAIN transaction_log /\ Disputed(transaction_log[t]))
                  => /\ result' = "Ok"
                     /\ UNCHANGED <<clients, transaction_log>> ]_vars

\* C4: Resolve and Chargeback change an account only while the entry is
\* Disputed; a Resolve that is applied leaves the entry Posted; and after a
\* Resolve(c,t) was applied, a further Resolve(c,t) or Chargeback(c,t) with no
\* Dispute(c,t) in between leaves the account of c unchanged.
C4_ResolveReturnsToPosted ==
    [][ branch' \in ResolveBranches \cup ChargebackBranches =>
        \A c \in ClientIds, t \in TransactionIds :
          /\ (ProcessResolve(c, t) \/ ProcessChargeback(c, t))
                => /\ clients' # clients
                        => (t \in DOMAIN transaction_log /\ Disputed(transaction_log[t]))
                   /\ <<c, t>> \in resolved => clients'[c] = clients[c]
          /\ (ProcessResolve(c, t) /\ SettleApplies(c, t))
                => Posted(transaction_log'[t]) ]_vars

\* C5: once a Chargeback was applied on tx t for client c, no later Resolve or
\* Chargeback record referencing t changes available, held or total of the
\* account of c.
C5_ChargebackIsTerminal ==
    [][ branch' \in ResolveBranches \cup ChargebackBranches =>
        \A c, d \in ClientIds, t \in TransactionIds :
          (<<c, t>> \in chargedback /\ (ProcessResolve(d, t) \/ ProcessChargeback(d, t)))
          => Balances(clients'[c]) = Balances(clients[c]) ]_vars

\* C6: in every step, an account that is locked before the step is locked
\* after it.
C6_LockedMonotonic ==
    [][ \A c \in DOMAIN clients :
            clients[c].locked => (c \in DOMAIN clients' /\ clients'[c].locked) ]_vars

\* a Resolve has just been applied to the only account there is, which a
\* Chargeback had locked
C6_Witness ==
    /\ branch = "resolve"
    /\ \E c \in ClientIds : DOMAIN clients = {c} /\ clients[c].locked

\* C7 as stated: every log entry carries an amount and process never returns
\* the missing-amount error.
C7_NoMissingAmount ==
    /\ \A t \in DOMAIN transaction_log : transaction_log[t].amount # None
    /\ result # "Err"

\* C7 as the code has it: process returns the missing-amount error exactly for
\* a Dispute record of an existing account whose referenced entry belongs to
\* the record's client and has no amount; an entry in status Disputed always
\* has an amount, so Resolve and Chargeback never return the error.
C7_ErrorExactlyOnAmountlessDispute ==
    [][ /\ result' = "Err"
            <=> /\ branch' \in DisputeBranches
                /\ \E c \in DOMAIN clients, t \in DOMAIN transaction_log :
                      /\ transaction_log[t].client = c
                      /\ transaction_log[t].amount = None
                      /\ ProcessDispute(c, t)
        /\ \A t \in DOMAIN transaction_log' :
              Disputed(transaction_log'[t]) => transaction_log'[t].amount # None ]_vars

\* a Dispute has just failed on an entry logged without an amount
C7_Witness ==
    /\ result = "Err"
    /\ branch = "dispute_err"
    /\ \E t \in DOMAIN transaction_log : transaction_log[t].amount = None

\* C8: a Dispute referencing a Withdrawal that was refused for insufficient
\* funds leaves available, held and total of every account as they were.
C8_DisputeOfRejectedWithdrawalMovesNothing ==
    [][ branch' \in DisputeBranches =>
        \A c \in ClientIds, t \in TransactionIds :
          (ProcessDispute(c, t) /\ t \in rejected)
          => \A k \in DOMAIN clients :
                Balances(clients'[k]) = Balances(clients[k]) ]_vars

\* C9: the accounts are exactly the clients for which a Deposit record was
\* processed (a Deposit step adds its client to the map, any other step adds
\* none, no step removes one); a record other than a Deposit for a client
\* without an account returns Ok and leaves the client map and the log
\* unchanged.  Stated by contraposition: a step without the effect claimed
\* for a record is not the step of that record.
C9_AccountIffDeposit ==
    [][ /\ DOMAIN clients \subseteq DOMAIN clients'
        /\ branch' = "deposit" => DOMAIN clients' = DOMAIN clients
        /\ branch' = "open" =>
              \A c \in ClientIds :
                  DOMAIN clients' # DOMAIN clients \cup {c}
                  => \A t \in TransactionIds, a \in Amounts : ~ProcessDeposit(c, t, a)
        /\ DOMAIN clients' # DOMAIN clients =>
              \A c \in ClientIds, t \in TransactionIds :
                  /\ \A a \in Amounts : ~ProcessWithdrawal(c, t, a)
                  /\ ~ProcessDispute(c, t)
                  /\ ~ProcessResolve(c, t)
                  /\ ~ProcessChargeback(c, t)
        /\ (/\ branch' = "skip_no_account"
            /\ ~(result' = "Ok" /\ UNCHANGED <<clients, transaction_log>>)) =>
              \A c \in ClientIds \ DOMAIN clients, t \in TransactionIds :
                  /\ \A a \in Amounts : ~ProcessWithdrawal(c, t, a)
                  /\ ~ProcessDispute(c, t)
                  /\ ~ProcessResolve(c, t)
                  /\ ~ProcessChargeback(c, t) ]_vars

\* a record other than a Deposit has just been skipped for a client without
\* an account, while another client, opened by an amount-less Deposit, has one
\* and the log is not empty
C9_Witness ==
    /\ branch = "skip_no_account"
    /\ transaction_log # <<>>
    /\ \E c \in DOMAIN clients : Balances(clients[c]) = <<0, 0, 0>>

\* C10: a Dispute whose tx is not logged, or is logged by another client,
\* returns Ok and leaves every account and every log entry unchanged.
C10_DisputeUnknownOrForeignTx ==
    [][ branch' \in DisputeBranches =>
        \A c \in ClientIds, t \in TransactionIds :
          (/\ ProcessDispute(c, t)
           /\ \/ t \notin DOMAIN transaction_log
              \/ transaction_log[t].client # c)
          => /\ result' = "Ok"
             /\ UNCHANGED <<clients, transaction_log>> ]_vars

\* an existing account has just disputed a tx that another client logged
\* with an amount
C10_Witness ==
    /\ branch = "dispute_wrong_client"
    /\ \A t \in DOMAIN transaction_log : transaction_log[t].amount # None

\* C11: a Resolve or Chargeback record whose tx is not logged, is logged by
\* another client, or is still Posted returns Ok and leaves every account
\* (available, held, total, locked) unchanged.  Stated by contraposition: a
\* step that returns an error or changes an account is not the step of such a
\* record.
C11_SettleNeverDisputed ==
    [][ (/\ branch' \in ResolveBranches \cup ChargebackBranches
         /\ result' # "Ok" \/ clients' # clients)
        => \A c \in ClientIds, t \in TransactionIds :
              (\/ t \notin DOMAIN transaction_log
               \/ transaction_log[t].client # c
               \/ Posted(transaction_log[t]))
              => ~ProcessResolve(c, t) /\ ~ProcessChargeback(c, t) ]_vars

\* a Resolve or Chargeback has just been skipped for an existing account while
\* every logged entry is Posted and carries an amount
C11_Witness ==
    /\ branch \in {"resolve_skip", "chargeback_skip"}
    /\ \A t \in DOMAIN transaction_log :
          Posted(transaction_log[t]) /\ transaction_log[t].amount # None

\* C12: a step in which the total of some account changes is not the step of
\* a Dispute or Resolve record, so Dispute and Resolve leave every total
\* unchanged and total changes only with Deposit, Withdrawal and Chargeback.
C12_TotalOnlyDepositWithdrawalChargeback ==
    [][ (/\ branch' \in DisputeBranches \cup ResolveBranches
         /\ \E k \in DOMAIN clients : clients'[k].total # clients[k].total)
        => \A c \in ClientIds, t \in TransactionIds :
              ~ProcessDispute(c, t) /\ ~ProcessResolve(c, t) ]_vars

\* a Dispute or a Resolve has just moved funds of an account whose total is
\* not zero
C12_Witness ==
    /\ branch \in {"dispute", "resolve"}
    /\ \E k \in DOMAIN clients : clients[k].total # 0 /\ clients[k].held # 0

C14_DepositWithdrawalEffect ==
    [][ LET Deposited(old, a) ==
                IF a = None THEN old
                ELSE [old EXCEPT !.available = @ + Unwrap(a),
                                 !.total = @ + Unwrap(a)]
            Withdrawn(old, a) ==
                IF a # None /\ old.available >= Unwrap(a)
                  THEN [old EXCEPT !.available = @ - Unwrap(a),
                                   !.total = @ - Unwrap(a)]
                  ELSE old
        IN
        /\ branch' = "open" =>
              \A c \in DOMAIN clients' \ DOMAIN clients, a \in Amounts :
                  clients'[c] # Deposited(new(c), a)
                  => \A t \in TransactionIds : ~ProcessDeposit(c, t, a)
        /\ branch' = "deposit" =>
              \A t \in DOMAIN transaction_log' :
                  LET c == transaction_log'[t].client
                      a == transaction_log'[t].amount
                  IN  clients'[c] # Deposited(clients[c], a)
                      => ~ProcessDeposit(c, t, a)
        /\ branch' = "withdraw" =>
              \A t \in DOMAIN transaction_log' :
                  LET c == transaction_log'[t].client
                      a == transaction_log'[t].amount
                  IN  clients'[c] # Withdrawn(clients[c], a)
                      => ~ProcessWithdrawal(c, t, a) ]_vars

\* a Withdrawal has just been paid out and emptied the account
C14_Witness ==
    /\ branch = "withdraw"
    /\ \E t \in DOMAIN transaction_log :
          /\ transaction_log[t].typ = "Withdrawal"
          /\ transaction_log[t].amount # None
          /\ t \notin rejected
          /\ clients[transaction_log[t].client].available = 0

\* C15: a Dispute(c,t) on a Posted entry of c with amount a, Deposit or
\* Withdrawal alike, takes a off available, adds a to held, leaves total and
\* locked alone and marks the entry Disputed.  Stated by contraposition: a
\* step that leaves the account of c or the entry otherwise is not the step of
\* that Dispute.
C15_DisputeEffect ==
    [][ branch' \in DisputeBranches =>
        \A c \in DOMAIN clients, t \in DOMAIN transaction_log :
          (/\ DisputeApplies(c, t)
           /\ Posted(transaction_log[t])
           /\ LET a == Unwrap(transaction_log[t].amount) IN
              ~(/\ clients'[c] = [clients[c] EXCEPT !.available = @ - a,
                                                    !.held = @ + a]
                /\ t \in DOMAIN transaction_log'
                /\ Disputed(transaction_log'[t])))
          => ~ProcessDispute(c, t) ]_vars

\* a Dispute has just been applied to a Posted entry: the amount sits in held
\* and the entry is Disputed
C15_Witness ==
    /\ branch = "dispute"
    /\ \E p \in pre_dispute :
          /\ Disputed(transaction_log[p.tx])
          /\ clients[p.client].held =
                p.acct.held + Unwrap(transaction_log[p.tx].amount)

\* C16: Dispute followed by Resolve is a round trip: when Dispute(c,t) was
\* applied to a Posted entry of c and the next record, Resolve(c,t), was
\* applied too, the account of c has the available, held, total and locked it
\* had before the Dispute.
C16_DisputeResolveRoundTrip ==
    \A p \in pre_dispute :
        p.resolved =>
            /\ Balances(clients[p.client]) = Balances(p.acct)
            /\ clients[p.client].locked = p.acct.locked

\* such a Dispute and Resolve have just been processed on an account with
\* funds
C16_Witness ==
    /\ branch = "resolve"
    /\ \E p \in pre_dispute :
          /\ p.resolved
          /\ p.acct.total # 0
          /\ transaction_log[p.tx].amount # None

\* C17: a Chargeback(c,t) on a Disputed entry of c with amount a takes a off
\* held and total, leaves available alone and sets locked (by contraposition:
\* a step that leaves the account of c otherwise is not the step of that
\* Chargeback); and an account is locked only if chargeback ran on it.
C17_ChargebackEffect ==
    [][ /\ branch' \in ChargebackBranches =>
              \A c \in DOMAIN clients, t \in DOMAIN transaction_log :
                (/\ SettleApplies(c, t)
                 /\ LET a == Unwrap(transaction_log[t].amount) IN
                    clients'[c] # [clients[c] EXCEPT !.held = @ - a,
                                                     !.total = @ - a,
                                                     !.locked = TRUE])
                => ~ProcessChargeback(c, t)
        /\ \A c \in DOMAIN clients' :
              clients'[c].locked
              => \E t \in TransactionIds : <<c, t>> \in chargedback' ]_vars

\* a Chargeback has just been applied to an account, which is locked and keeps
\* funds
C17_Witness ==
    /\ branch = "chargeback"
    /\ \E c \in DOMAIN clients :
          /\ clients[c].locked
          /\ Cardinality({t \in TransactionIds : <<c, t>> \in chargedback}) = 1
          /\ clients[c].total # 0

\* C18: whenever process returns an error, the client map and the transaction
\* log, the status of the entry included, are as before the call; and the
\* loop goes on: after an error the next record of the stream is processed.
C18_ErrorLeavesStateAlone ==
    /\ [][ result' = "Err" => UNCHANGED <<clients, transaction_log>> ]_vars
    /\ [](result = "Err" /\ nrecords < MaxRecords => ENABLED Next)

\* a Dispute of an entry without amount has just failed on an account with
\* funds, and the stream has more records
C18_Witness ==
    /\ result = "Err"
    /\ branch = "dispute_err"
    /\ nrecords < MaxRecords
    /\ \E t \in DOMAIN transaction_log :
          /\ transaction_log[t].amount = None
          /\ clients[transaction_log[t].client].total # 0

\* C19: the locked flag gates no operation: a Deposit, Withdrawal, Dispute,
\* Resolve or Chargeback that process applies for a locked account leaves it
\* as the same operation leaves the same account with the flag off, but for
\* the flag.  Stated by contraposition: a step that leaves a locked account of
\* c otherwise is not the step of that record.
C19_LockedGatesNothing ==
    [][ \A c \in DOMAIN clients :
          clients[c].locked =>
            LET unlocked == [clients[c] EXCEPT !.locked = FALSE]
                Locked(acct) == [acct EXCEPT !.locked = TRUE]
            IN
            /\ branch' \in {"deposit", "withdraw"} =>
                  \A t \in DOMAIN transaction_log' :
                    LET a == transaction_log'[t].amount IN
                    transaction_log'[t].client = c =>
                      /\ clients'[c] # Locked(deposit(unlocked, t, a))
                            => ~ProcessDeposit(c, t, a)
                      /\ clients'[c] # Locked(withdraw(unlocked, t, a))
                            => ~ProcessWithdrawal(c, t, a)
            /\ branch' \in DisputeBranches =>
                  \A t \in DOMAIN transaction_log :
                    (/\ DisputeApplies(c, t)
                     /\ clients'[c] #
                           Locked(dispute(unlocked, t, transaction_log[t].amount).acct))
                    => ~ProcessDispute(c, t)
            /\ branch' \in ResolveBranches =>
                  \A t \in DOMAIN transaction_log :
                    (/\ SettleApplies(c, t)
                     /\ clients'[c] #
                           Locked(resolve(unlocked, t, transaction_log[t].amount).acct))
                    => ~ProcessResolve(c, t)
            /\ branch' \in ChargebackBranches =>
                  \A t \in DOMAIN transaction_log :
                    (/\ SettleApplies(c, t)
                     /\ clients'[c] #
                           chargeback(unlocked, t, transaction_log[t].amount).acct)
                    => ~ProcessChargeback(c, t) ]_vars

\* a Deposit with an amount has just been processed while every account is
\* locked
C19_Witness ==
    /\ branch = "deposit"
    /\ \A c \in DOMAIN clients : clients[c].locked
    /\ \E t \in DOMAIN transaction_log :
          /\ transaction_log[t].typ = "Deposit"
          /\ transaction_log[t].amount # None

\* C20: with every amount non-negative, held of every account is
\* non-negative in every reachable state.
C20_HeldNonNegative ==
    \A c \in DOMAIN clients : clients[c].held >= 0

====
